---- MODULE Spec2Model ----
(***************************************************************************)
(* A model of vite's configuration resolution (packages/vite/src/node/     *)
(* config.ts) and of its SSR externalization heuristic (ssrExternal.ts).   *)
(*                                                                         *)
(* JavaScript values are records [t, s, l] of one shape: t is the type     *)
(* tag, s the text of a scalar, l the elements of an array or the          *)
(* properties of an object, in insertion order.  A text is a sequence of   *)
(* strings: a text the code only compares is one piece (<<"alias">>), a    *)
(* text the code inspects by character (an alias find or replacement, a    *)
(* base URL) is split into its characters (<<"/", "a", "/">>), so that     *)
(* endsWith and slice are computed, not assumed.                           *)
(***************************************************************************)
EXTENDS Integers, Sequences, FiniteSets, TLC

VARIABLES
  \* mergeConfig(a, b, isRoot) applied to drawn arguments
  argA, argB, argIsRoot, merged, mergePc,
  \* one run of resolveConfig: its arguments, locals and position
  rc,
  \* the process that calls loadConfigFromFile: its files, loaders and caches,
  \* and the arguments, locals and position of the call under way
  ld,
  \* one call of resolveSSRExternal: the installed packages, the Set of
  \* externals and the stack of the calls in progress
  ssr,
  \* one call of shouldExternalizeForSSR: its arguments and its result
  sx,
  \* one call of normalizeSingleAlias: its argument and its result
  nsa

mergeVars == <<argA, argB, argIsRoot, merged, mergePc>>
vars == <<argA, argB, argIsRoot, merged, mergePc, rc, ld, ssr, sx, nsa>>

----------------------------------------------------------------------------
\* Bounds of the model.

\* longest array drawn as an input of mergeConfig
MaxListLen == 2
\* deepest nesting of plain objects drawn as an input of mergeConfig
MaxDepth == 1
\* most plugins registered in the inline config of a run of resolveConfig
MaxPlugins == 4
\* most calls of loadConfigFromFile in one process
MaxLoads == 2
\* most edits of the config file between the loads
MaxEdits == 1
\* latest reading of Date.now()
MaxClock == 1
\* most calls of resolveSSRExternal in progress at once (the host's call stack)
MaxStack == 5
\* longest import id given to shouldExternalizeForSSR, in pieces
MaxIdLen == 5
\* longest find and replacement given to normalizeSingleAlias, in characters
MaxAliasLen == 3

----------------------------------------------------------------------------
\* JavaScript values.

Undef == [t |-> "undefined", s |-> <<>>, l |-> <<>>]
Null == [t |-> "null", s |-> <<>>, l |-> <<>>]
Str(cs) == [t |-> "string", s |-> cs, l |-> <<>>]
Num(cs) == [t |-> "number", s |-> cs, l |-> <<>>]
RegExp(cs) == [t |-> "regexp", s |-> cs, l |-> <<>>]
Fn(cs) == [t |-> "function", s |-> cs, l |-> <<>>]
Arr(elems) == [t |-> "array", s |-> <<>>, l |-> elems]
Prop(key, value) == [t |-> "prop", s |-> key, l |-> <<value>>]
Obj(props) == [t |-> "object", s |-> <<>>, l |-> props]
\* a thrown error, as the value of an operator that models a throwing call
Throw(cs) == [t |-> "throw", s |-> cs, l |-> <<>>]

IsThrow(v) == v.t = "throw"
\* value == null
IsNullish(v) == v.t \in {"undefined", "null"}
IsArray(v) == v.t = "array"
\* utils.isObject: Object.prototype.toString.call(v) === '[object Object]'
isObject(v) == v.t = "object"

HasKey(o, key) == \E i \in 1..Len(o.l) : o.l[i].s = key
KeyIndex(o, key) == CHOOSE i \in 1..Len(o.l) : o.l[i].s = key
\* o[key]
Get(o, key) == IF HasKey(o, key) THEN o.l[KeyIndex(o, key)].l[1] ELSE Undef
\* o[key] = value: an existing key keeps its place, a new key is appended
Set(o, key, value) ==
  IF HasKey(o, key)
    THEN Obj([o.l EXCEPT ![KeyIndex(o, key)] = Prop(key, value)])
    ELSE Obj(Append(o.l, Prop(key, value)))
\* Object.keys(o) / for (const key in o), for the string keys of the model
Keys(o) == [i \in 1..Len(o.l) |-> o.l[i].s]

\* s.endsWith(c) for a one-character c
endsWith(cs, c) == Len(cs) > 0 /\ cs[Len(cs)] = c
\* s.slice(0, s.length - 1)
dropLast(cs) == SubSeq(cs, 1, Len(cs) - 1)

\* [].concat(x, y): an array argument is spread one level, any other appended
concat(x, y) ==
  Arr((IF IsArray(x) THEN x.l ELSE <<x>>) \o (IF IsArray(y) THEN y.l ELSE <<y>>))

TypeError == <<"TypeError">>

----------------------------------------------------------------------------
\* Alias normalization.

normalizeSingleAlias(alias) ==
  LET find == Get(alias, <<"find">>)
      replacement == Get(alias, <<"replacement">>)
  IN IF find.t = "string" /\ endsWith(find.s, "/")
       THEN \* replacement.endsWith is a method of strings only
            IF replacement.t # "string" THEN Throw(TypeError)
            ELSE IF endsWith(replacement.s, "/")
              THEN Obj(<<Prop(<<"find">>, Str(dropLast(find.s))),
                         Prop(<<"replacement">>, Str(dropLast(replacement.s)))>>)
              ELSE Obj(<<Prop(<<"find">>, find), Prop(<<"replacement">>, replacement)>>)
       ELSE Obj(<<Prop(<<"find">>, find), Prop(<<"replacement">>, replacement)>>)

\* the first thrown error of a sequence of results, else the array of them
ArrOrThrow(results) ==
  IF \E i \in 1..Len(results) : IsThrow(results[i])
    THEN results[CHOOSE i \in 1..Len(results) :
                   IsThrow(results[i]) /\ \A j \in 1..(i - 1) : ~IsThrow(results[j])]
    ELSE Arr(results)

normalizeAlias(o) ==
  IF IsArray(o)
    THEN ArrOrThrow([i \in 1..Len(o.l) |-> normalizeSingleAlias(o.l[i])])
    ELSE ArrOrThrow([i \in 1..Len(o.l) |->
           normalizeSingleAlias(Obj(<<Prop(<<"find">>, Str(o.l[i].s)),
                                      Prop(<<"replacement">>, o.l[i].l[1])>>))])

mergeAlias(x, y) ==
  LET na == normalizeAlias(IF x.t = "undefined" THEN Arr(<<>>) ELSE x)
  IN IF IsThrow(na) THEN na
     ELSE LET nb == normalizeAlias(IF y.t = "undefined" THEN Arr(<<>>) ELSE y)
          IN IF IsThrow(nb) THEN nb ELSE Arr(na.l \o nb.l)

----------------------------------------------------------------------------
\* mergeConfig.

RECURSIVE mergeConfig(_, _, _)
RECURSIVE mergeKeys(_, _, _, _)
RECURSIVE mergeKey(_, _, _, _)

\* mergeKey without the branch for assetsInclude at the root
mergeKey_assetsReplaced(acc, key, value, isRoot) ==
  IF IsNullish(value) THEN acc
  ELSE LET existing == Get(acc, key) IN
    IF IsArray(existing) /\ IsArray(value)
      THEN Set(acc, key, Arr(existing.l \o value.l))
    ELSE IF isObject(existing) /\ isObject(value)
      THEN LET sub == mergeConfig(existing, value, FALSE)
           IN IF IsThrow(sub) THEN sub ELSE Set(acc, key, sub)
    ELSE IF ~IsNullish(existing) /\ isRoot /\ key = <<"alias">>
      THEN LET al == mergeAlias(existing, value)
           IN IF IsThrow(al) THEN al ELSE Set(acc, key, al)
    ELSE Set(acc, key, value)

\* mergeKey where a nullish value of the override is assigned like any other
mergeKey_nullishAssigned(acc, key, value, isRoot) ==
  LET existing == Get(acc, key) IN
    IF IsArray(existing) /\ IsArray(value)
      THEN Set(acc, key, Arr(existing.l \o value.l))
    ELSE IF isObject(existing) /\ isObject(value)
      THEN LET sub == mergeConfig(existing, value, FALSE)
           IN IF IsThrow(sub) THEN sub ELSE Set(acc, key, sub)
    ELSE IF ~IsNullish(existing) /\ isRoot /\ key = <<"alias">>
      THEN LET al == mergeAlias(existing, value)
           IN IF IsThrow(al) THEN al ELSE Set(acc, key, al)
    ELSE IF ~IsNullish(existing) /\ isRoot /\ key = <<"assetsInclude">>
      THEN Set(acc, key, concat(existing, value))
    ELSE Set(acc, key, value)

\* one iteration of the loop over the keys of b
mergeKey(acc, key, value, isRoot) ==
  IF IsNullish(value) THEN acc
  ELSE LET existing == Get(acc, key) IN
    IF IsArray(existing) /\ IsArray(value)
      THEN Set(acc, key, Arr(existing.l \o value.l))
    ELSE IF isObject(existing) /\ isObject(value)
      THEN LET sub == mergeConfig(existing, value, FALSE)
           IN IF IsThrow(sub) THEN sub ELSE Set(acc, key, sub)
    ELSE IF ~IsNullish(existing) /\ isRoot /\ key = <<"alias">>
      THEN LET al == mergeAlias(existing, value)
           IN IF IsThrow(al) THEN al ELSE Set(acc, key, al)
    ELSE IF ~IsNullish(existing) /\ isRoot /\ key = <<"assetsInclude">>
      THEN Set(acc, key, concat(existing, value))
    ELSE Set(acc, key, value)

\* the loop over the keys of b from the i-th on; a throw ends it
mergeKeys(acc, b, i, isRoot) ==
  IF IsThrow(acc) \/ i > Len(b.l) THEN acc
  ELSE mergeKeys(mergeKey(acc, b.l[i].s, b.l[i].l[1], isRoot), b, i + 1, isRoot)

\* merged = { ...a }, then the loop
mergeConfig(a, b, isRoot) == mergeKeys(Obj(a.l), b, 1, isRoot)

----------------------------------------------------------------------------
\* The arguments mergeConfig is applied to.

SeqsUpTo(S, n) == UNION {[1..k -> S] : k \in 0..n}

Num1 == Num(<<"1">>)
Num2 == Num(<<"2">>)

\* values of a generic key: scalars, lists of scalars, and plain objects
\* nested to the depth d
GenericLeaves ==
  {Undef, Null, Num1, Num2} \cup {Arr(e) : e \in SeqsUpTo({Num1, Num2}, MaxListLen)}
RECURSIVE GenericValues(_)
GenericValues(d) ==
  IF d = 0 THEN GenericLeaves
  ELSE GenericLeaves \cup
       {Obj(<<Prop(k, v)>>) : k \in {<<"a">>, <<"assetsInclude">>}, v \in GenericValues(d - 1)}

\* values of assetsInclude: string | RegExp | (string | RegExp)[]
AssetScalars == {Str(<<"*", "a">>), RegExp(<<"b", "$">>)}
AssetValues ==
  {Undef, Null} \cup AssetScalars
    \cup {Arr(e) : e \in SeqsUpTo(AssetScalars, MaxListLen)}

\* values of alias: a list of { find, replacement } or a mapping find -> replacement
Find1 == <<"/", "a", "/">>
Find2 == <<"/", "b">>
Repl1 == Str(<<"/", "r", "/">>)
Repl2 == Str(<<"/", "s">>)
ReplFn == Fn(<<"f">>)
AliasPair(find, replacement) ==
  Obj(<<Prop(<<"find">>, find), Prop(<<"replacement">>, replacement)>>)
AliasPairs ==
  {AliasPair(Str(Find1), Repl1), AliasPair(Str(Find1), Repl2),
   AliasPair(Str(Find2), Repl1), AliasPair(Str(Find2), ReplFn),
   AliasPair(Str(Find1), ReplFn),
   AliasPair(RegExp(<<"^", "a">>), Repl1)}
AliasLists == {Arr(e) : e \in SeqsUpTo(AliasPairs, MaxListLen)}
AliasMappings ==
  {Obj(<<>>)}
    \cup {Obj(<<Prop(f, r)>>) : f \in {Find1, Find2}, r \in {Repl1, Repl2}}
    \cup {Obj(<<Prop(Find1, r1), Prop(Find2, r2)>>) : r1 \in {Repl1, Repl2}, r2 \in {Repl2, ReplFn}}
AliasValues == {Undef, Null} \cup AliasLists \cup AliasMappings

MergeKeyNames == {<<"alias">>, <<"assetsInclude">>, <<"a">>}
ValuesFor(key) ==
  IF key = <<"alias">> THEN AliasValues
  ELSE IF key = <<"assetsInclude">> THEN AssetValues
  ELSE GenericValues(MaxDepth)

\* the marker of a key the object does not have
Absent == [t |-> "absent", s |-> <<>>, l |-> <<>>]
OptProp(key, value) == IF value = Absent THEN <<>> ELSE <<Prop(key, value)>>

\* the base carries a key of its own before the key under test, the override
\* one of its own before it
BaseConfig(key, value) == Obj(<<Prop(<<"base">>, Num1)>> \o OptProp(key, value))
OverrideConfig(key, value) == Obj(<<Prop(<<"extra">>, Num2)>> \o OptProp(key, value))

MergeIdle ==
  /\ argA = Undef /\ argB = Undef /\ argIsRoot = FALSE
  /\ merged = Undef /\ mergePc = "idle"

MergeInit ==
  /\ rc = [pc |-> "idle"]
  /\ ld = [pc |-> "idle"]
  /\ ssr = [pc |-> "idle"]
  /\ sx = [pc |-> "idle"] /\ nsa = [pc |-> "idle"]
  /\ \E key \in MergeKeyNames :
       \E va \in ValuesFor(key) \cup {Absent}, vb \in ValuesFor(key) \cup {Absent} :
         /\ argA = BaseConfig(key, va)
         /\ argB = OverrideConfig(key, vb)
  /\ argIsRoot \in BOOLEAN
  /\ merged = Undef
  /\ mergePc = "call"

\* merged = mergeConfig(a, b, isRoot); a throw is kept as the result
MergeCall ==
  /\ mergePc = "call"
  /\ merged' = mergeConfig(argA, argB, argIsRoot)
  /\ mergePc' = "done"
  /\ UNCHANGED <<argA, argB, argIsRoot>>

MergeNext == MergeCall /\ UNCHANGED <<rc, ld, ssr, sx, nsa>>

SpecMerge == MergeInit /\ [][MergeNext]_vars

----------------------------------------------------------------------------
\* One call of normalizeSingleAlias.  A find is a string or a regular
\* expression, a replacement a string or a function.

NaCall ==
  /\ nsa.pc = "call"
  /\ nsa' = [nsa EXCEPT !.pc = "done", !.result = normalizeSingleAlias(nsa.alias)]
  /\ UNCHANGED <<mergeVars, rc, ld, ssr, sx>>

NaInit ==
  /\ MergeIdle
  /\ rc = [pc |-> "idle"]
  /\ ld = [pc |-> "idle"]
  /\ ssr = [pc |-> "idle"]
  /\ sx = [pc |-> "idle"]
  /\ \E f \in SeqsUpTo({"/", "s"}, MaxAliasLen), r \in SeqsUpTo({"/", "r"}, MaxAliasLen) :
       \E find \in {Str(f), RegExp(f)}, replacement \in {Str(r), Fn(r)} :
         nsa = [pc |-> "call", alias |-> AliasPair(find, replacement), result |-> Undef]

SpecAlias == NaInit /\ [][NaCall]_vars

----------------------------------------------------------------------------
\* Properties of normalizeSingleAlias.

NaFind == Get(nsa.alias, <<"find">>)
NaReplacement == Get(nsa.alias, <<"replacement">>)
\* the text ends in the separator
EndsInSeparator(v) == v.t = "string" /\ v.s # <<>> /\ v.s[Len(v.s)] = "/"
WithoutLast(v) == Str([i \in 1..(Len(v.s) - 1) |-> v.s[i]])

\* C23: normalizeSingleAlias strips the trailing separator of find and of
\* replacement exactly when find is a literal string ending in "/" and
\* replacement ends in "/" too; in every other case (mismatched separators,
\* a pattern for find, a replacement that is not text ending in "/") the
\* pair is returned unchanged.
C23_TrimRule ==
  nsa.pc = "done" =>
    IF EndsInSeparator(NaFind) /\ EndsInSeparator(NaReplacement)
      THEN nsa.result = AliasPair(WithoutLast(NaFind), WithoutLast(NaReplacement))
      ELSE nsa.result = AliasPair(NaFind, NaReplacement)

----------------------------------------------------------------------------
\* Properties of mergeConfig.

\* the pairs an alias option stands for, in the normal form of normalizeAlias
AliasPairsOf(v) == normalizeAlias(v).l
AliasCarried(v) == v.t \in {"array", "object"} /\ ~IsThrow(normalizeAlias(v))
MergeReturned == mergePc = "done" /\ ~IsThrow(merged)

\* C8: merging two root configs that both carry an alias gives, for lists and
\* mappings alike, the pairs of the base followed by the pairs of the
\* override; no base pair is replaced or dropped.
C8_AliasConcatenated ==
  (MergeReturned /\ argIsRoot
     /\ AliasCarried(Get(argA, <<"alias">>)) /\ AliasCarried(Get(argB, <<"alias">>)))
  => AliasPairsOf(Get(merged, <<"alias">>))
       = AliasPairsOf(Get(argA, <<"alias">>)) \o AliasPairsOf(Get(argB, <<"alias">>))

\* the entries of an assetsInclude value: those of a list, or the one scalar
AssetEntries(v) == IF IsArray(v) THEN v.l ELSE <<v>>
AssetCarried(v) == v \in AssetScalars \/ IsArray(v)

\* C9: at the root, the merged assetsInclude of two sides that carry one is
\* the list of the base's entries followed by the override's, for scalars and
\* lists alike; below the root the key is merged like any other: two lists
\* are concatenated and otherwise the override's value replaces the base's.
C9_AssetsInclude ==
  /\ (MergeReturned /\ argIsRoot
        /\ AssetCarried(Get(argA, <<"assetsInclude">>))
        /\ AssetCarried(Get(argB, <<"assetsInclude">>)))
     => Get(merged, <<"assetsInclude">>)
          = Arr(AssetEntries(Get(argA, <<"assetsInclude">>))
                  \o AssetEntries(Get(argB, <<"assetsInclude">>)))
  /\ (MergeReturned /\ ~argIsRoot
        /\ AssetCarried(Get(argA, <<"assetsInclude">>))
        /\ AssetCarried(Get(argB, <<"assetsInclude">>))
        /\ ~(IsArray(Get(argA, <<"assetsInclude">>)) /\ IsArray(Get(argB, <<"assetsInclude">>))))
     => Get(merged, <<"assetsInclude">>) = Get(argB, <<"assetsInclude">>)
  /\ \A va, vb \in GenericLeaves :
       (/\ MergeReturned
        /\ Get(argA, <<"a">>) = Obj(<<Prop(<<"assetsInclude">>, va)>>)
        /\ Get(argB, <<"a">>) = Obj(<<Prop(<<"assetsInclude">>, vb)>>)
        /\ ~IsNullish(vb) /\ ~(IsArray(va) /\ IsArray(vb)))
       => Get(Get(merged, <<"a">>), <<"assetsInclude">>) = vb

C9_Witness ==
  /\ MergeReturned /\ argIsRoot
  /\ Get(argA, <<"assetsInclude">>) \in AssetScalars
  /\ IsArray(Get(argB, <<"assetsInclude">>))
  /\ Len(Get(argB, <<"assetsInclude">>).l) = 2
  /\ Len(Get(merged, <<"assetsInclude">>).l) = 3

\* the keys the root handles ahead of the generic rule: alias and assetsInclude
\* over a non-nullish base value that is not a list beside a list or a
\* mapping beside a mapping
RootSpecial(key, va, vb, isRoot) ==
  /\ isRoot /\ key \in {<<"alias">>, <<"assetsInclude">>} /\ ~IsNullish(va)
  /\ ~(IsArray(va) /\ IsArray(vb)) /\ ~(isObject(va) /\ isObject(vb))

\* the generic rules relate base a, override b and result m; with `exempt`
\* the keys the root handles by a rule of its own are left unconstrained
RECURSIVE GenericRules(_, _, _, _, _)
GenericRules(a, b, m, isRoot, exempt) ==
  /\ isObject(m)
  /\ \A i \in 1..Len(m.l) : HasKey(a, m.l[i].s) \/ HasKey(b, m.l[i].s)
  /\ \A i \in 1..Len(a.l) :
       ~HasKey(b, a.l[i].s) => (HasKey(m, a.l[i].s) /\ Get(m, a.l[i].s) = a.l[i].l[1])
  /\ \A i \in 1..Len(b.l) :
       LET key == b.l[i].s
           vb == b.l[i].l[1]
           va == Get(a, key)
           vm == Get(m, key)
       IN IF IsNullish(vb) THEN vm = va /\ (HasKey(m, key) <=> HasKey(a, key))
          ELSE IF IsArray(va) /\ IsArray(vb) THEN vm = Arr(va.l \o vb.l)
          ELSE IF isObject(va) /\ isObject(vb)
            THEN GenericRules(va, vb, vm, FALSE, exempt)
          ELSE IF exempt /\ RootSpecial(key, va, vb, isRoot) THEN TRUE
          ELSE vm = vb

\* C10 as stated: for every base and override, per key of the override, a
\* nullish value leaves the base's, two lists give the base's elements then
\* the override's with duplicates kept, two plain mappings are merged by the
\* same rules, anything else replaces the base's value; keys of the base
\* alone are kept.
C10_GenericRulesEverywhere ==
  MergeReturned => GenericRules(argA, argB, merged, argIsRoot, FALSE)

\* C10, amended: the generic rules hold for every key but alias and
\* assetsInclude at the root over a non-nullish base value, which the root
\* merges by the rules of C8 and C9 instead of replacing.
C10_GenericRules ==
  MergeReturned => GenericRules(argA, argB, merged, argIsRoot, TRUE)

C10_Witness ==
  /\ MergeReturned
  /\ Get(argA, <<"a">>) = Obj(<<Prop(<<"a">>, Arr(<<Num1, Num2>>))>>)
  /\ Get(argB, <<"a">>) = Obj(<<Prop(<<"a">>, Arr(<<Num2>>))>>)
  /\ Get(Get(merged, <<"a">>), <<"a">>) = Arr(<<Num1, Num2, Num2>>)
  /\ Get(merged, <<"base">>) = Num1
  /\ Get(merged, <<"extra">>) = Num2

\* C11: mergeConfig is total: for every pair of config mappings, aliases with
\* a function-valued or other non-string replacement included, it returns a
\* merged mapping and never throws.
C11_MergeTotal ==
  mergePc = "done" => (~IsThrow(merged) /\ isObject(merged))

----------------------------------------------------------------------------
\* resolveConfig: values and helpers.

True == [t |-> "boolean", s |-> <<"true">>, l |-> <<>>]
False == [t |-> "boolean", s |-> <<"false">>, l |-> <<>>]
Bool(x) == IF x THEN True ELSE False
\* an object held by reference (the caller's inline config, the logger)
Ref(cs) == [t |-> "ref", s |-> cs, l |-> <<>>]
\* an accessor property installed by Object.defineProperty
Accessor(cs) == [t |-> "accessor", s |-> cs, l |-> <<>>]

\* the truthiness of a value, as in `x || y` and `if (x)`
Truthy(v) ==
  CASE IsNullish(v) -> FALSE
    [] v.t = "string" -> v.s # <<>>
    [] v.t = "boolean" -> v = True
    [] v.t = "number" -> v.s # <<"0">>
    [] OTHER -> TRUE
\* x || y
OrElse(x, y) == IF Truthy(x) THEN x ELSE y

\* array.flat(): the elements of nested arrays, one level
RECURSIVE flat(_)
flat(elems) ==
  IF elems = <<>> THEN <<>>
  ELSE (IF IsArray(Head(elems)) THEN Head(elems).l ELSE <<Head(elems)>>) \o flat(Tail(elems))

\* the filter of the raw user plugins: !p.apply || p.apply === command
AppliesTo(p, command) == ~Truthy(Get(p, <<"apply">>)) \/ Get(p, <<"apply">>) = command

\* a variant that puts the plugins without a tag first
sortUserPlugins_normalFirst(plugins) ==
  LET ps == IF Truthy(plugins) THEN flat(plugins.l) ELSE <<>>
      IsPre(p) == Get(p, <<"enforce">>) = Str(<<"pre">>)
      IsPost(p) == Get(p, <<"enforce">>) = Str(<<"post">>)
      IsNormal(p) == ~IsPre(p) /\ ~IsPost(p)
  IN <<SelectSeq(ps, IsNormal), SelectSeq(ps, IsPre), SelectSeq(ps, IsPost)>>

\* [prePlugins, normalPlugins, postPlugins]
sortUserPlugins(plugins) ==
  LET ps == IF Truthy(plugins) THEN flat(plugins.l) ELSE <<>>
      IsPre(p) == Get(p, <<"enforce">>) = Str(<<"pre">>)
      IsPost(p) == Get(p, <<"enforce">>) = Str(<<"post">>)
      IsNormal(p) == ~IsPre(p) /\ ~IsPost(p)
  IN <<SelectSeq(ps, IsPre), SelectSeq(ps, IsNormal), SelectSeq(ps, IsPost)>>

\* what the config hook of plugin p returns when called: a plugin whose hook
\* is the function "partial" contributes an include entry of its own name, a
\* mode and a further plugin; any other hook returns nothing
ContributedPlugin ==
  Obj(<<Prop(<<"name">>, Str(<<"X">>)), Prop(<<"enforce">>, Str(<<"pre">>)),
        Prop(<<"config">>, Fn(<<"partial">>)), Prop(<<"configResolved">>, Fn(<<"notify">>))>>)
ConfigHookResult(p) ==
  IF Get(p, <<"config">>) = Fn(<<"partial">>)
    THEN Obj(<<Prop(<<"optimizeDeps">>, Obj(<<Prop(<<"include">>, Arr(<<Get(p, <<"name">>)>>))>>)),
               Prop(<<"mode">>, Str(<<"hooked">>)),
               Prop(<<"plugins">>, Arr(<<ContributedPlugin>>))>>)
    ELSE Undef

startsWith(cs, prefix) ==
  Len(cs) >= Len(prefix) /\ SubSeq(cs, 1, Len(prefix)) = prefix
\* utils.isExternalUrl: /^(https?:)?\/\//
isExternalUrl(cs) ==
  \/ startsWith(cs, <<"/", "/">>)
  \/ startsWith(cs, <<"h", "t", "t", "p", ":", "/", "/">>)
  \/ startsWith(cs, <<"h", "t", "t", "p", "s", ":", "/", "/">>)
\* url.parse(base).pathname: what follows the host, from its first "/"
RECURSIVE fromFirstSlash(_)
fromFirstSlash(cs) ==
  IF cs = <<>> \/ Head(cs) = "/" THEN cs ELSE fromFirstSlash(Tail(cs))
pathnameOf(cs) ==
  LET afterScheme ==
        IF startsWith(cs, <<"/", "/">>) THEN SubSeq(cs, 3, Len(cs))
        ELSE IF startsWith(cs, <<"h", "t", "t", "p", ":", "/", "/">>) THEN SubSeq(cs, 8, Len(cs))
        ELSE SubSeq(cs, 9, Len(cs))
  IN fromFirstSlash(afterScheme)

\* resolveBaseUrl(base = '/', isBuild, logger), on the text of base
resolveBaseUrl(baseValue, isBuild) ==
  LET base == IF baseValue.t = "undefined" THEN <<"/">> ELSE baseValue.s
  IN IF base = <<>> \/ base = <<".", "/">>
       THEN (IF isBuild THEN base ELSE <<"/">>)
       ELSE LET b1 == IF startsWith(base, <<".">>) THEN <<"/">> ELSE base
                b2 == IF isExternalUrl(b1)
                        THEN (IF ~isBuild
                                THEN (IF pathnameOf(b1) = <<>> THEN <<"/">> ELSE pathnameOf(b1))
                                ELSE b1)
                        ELSE (IF ~startsWith(b1, <<"/">>) THEN <<"/">> \o b1 ELSE b1)
            IN IF ~endsWith(b2, "/") THEN b2 \o <<"/">> ELSE b2

\* { ...o, ...p }: every property of p set on a copy of o
RECURSIVE spreadFrom(_, _, _)
spreadFrom(acc, p, i) ==
  IF i > Len(p.l) THEN acc ELSE spreadFrom(Set(acc, p.l[i].s, p.l[i].l[1]), p, i + 1)
spread(o, p) == spreadFrom(Obj(o.l), p, 1)

\* build.resolveBuildOptions(raw): a new object, the raw options over the defaults
resolveBuildOptions(raw) ==
  LET defaults == Obj(<<Prop(<<"outDir">>, Str(<<"dist">>))>>)
  IN IF isObject(raw) THEN spread(defaults, raw) ELSE defaults

\* loadEnv(mode, root): the mode "local" is refused; the .env files and the
\* VITE_ variables of the process are left out
loadEnv(mode) ==
  IF mode = Str(<<"local">>) THEN Throw(<<"Error: local cannot be used as a mode name">>)
  ELSE Obj(<<>>)

\* plugins.resolvePlugins(config, pre, normal, post): the user plugins in
\* pipeline order (the built-in plugins around them are left out)
resolvePlugins(prePlugins, normalPlugins, postPlugins) ==
  Arr(prePlugins \o normalPlugins \o postPlugins)

----------------------------------------------------------------------------
\* resolveConfig: the run.

Development == Str(<<"development">>)
Production == Str(<<"production">>)

\* the state at line 213: config = inlineConfig, the mode and configEnv set
RcStart(inline, command, defaultMode, load) ==
  LET m == OrElse(Get(inline, <<"mode">>), defaultMode) IN
  [pc |-> "load", inlineConfig |-> inline, inlineAtCall |-> inline,
   configIsInline |-> TRUE,
   command |-> command, load |-> load, config |-> inline, mode |-> m,
   nodeEnv |-> (IF m = Production THEN Production ELSE Undef),
   configEnv |-> Obj(<<Prop(<<"mode">>, m), Prop(<<"command">>, command)>>),
   defaultMode |-> defaultMode, loadConfigEnv |-> Undef,
   configFile |-> Get(inline, <<"configFile">>), configAfterLoad |-> Undef,
   rawUserPlugins |-> <<>>, sorted |-> <<<<>>, <<>>, <<>>>>, userPlugins |-> <<>>,
   idx |-> 0, calls |-> <<>>, resolved |-> Undef, atFirstNotify |-> Undef,
   error |-> Undef]

RcFail(e) == rc' = [rc EXCEPT !.pc = "failed", !.error = e]

Call(hook, p, arg, env, res, threw) ==
  [hook |-> hook, plugin |-> p, arg |-> arg, env |-> env, res |-> res, threw |-> threw]

\* a variant that folds the accumulator onto the hook's result
foldHookResult_reversed(config, res) ==
  IF Truthy(res) THEN mergeConfig(res, config, TRUE) ELSE config

\* lines 243-245: if (res) config = mergeConfig(config, res)
foldHookResult(config, res) ==
  IF Truthy(res) THEN mergeConfig(config, res, TRUE) ELSE config

\* a variant that catches the error of a hook and goes on to the next plugin
hookThrew_swallowed(state, e, log) ==
  [state EXCEPT !.calls = log, !.idx = state.idx + 1]

\* an error thrown inside the callback of userPlugins.forEach (lines 240-247
\* and 374-378) is thrown out of resolveConfig
hookThrew(state, e, log) ==
  [state EXCEPT !.pc = "failed", !.error = e, !.calls = log]

\* the mode of the inline config or the default, whatever the file says
resolvedMode_fileIgnored(config, mode) == mode
\* line 228: mode = config.mode || mode
resolvedMode(config, mode) == OrElse(Get(config, <<"mode">>), mode)

\* lines 214-226: the config file, unless configFile is false;
\* loadConfigFromFile is called with configEnv
RcLoadConfig ==
  /\ rc.pc = "load"
  /\ LET called == [rc EXCEPT !.loadConfigEnv = rc.configEnv] IN
     IF rc.configFile = False
       THEN rc' = [rc EXCEPT !.pc = "plugins"]
       ELSE IF rc.load.kind = "null"
         THEN rc' = [called EXCEPT !.pc = "plugins"]
       ELSE IF rc.load.kind = "throw"
         THEN rc' = [called EXCEPT !.pc = "failed", !.error = Throw(<<"loadConfigFromFile">>)]
         ELSE LET m == mergeConfig(rc.load.config, rc.config, TRUE)
              IN IF IsThrow(m) THEN rc' = [called EXCEPT !.pc = "failed", !.error = m]
                 ELSE rc' = [called EXCEPT !.pc = "plugins", !.config = m,
                                           !.configIsInline = FALSE,
                                           !.configFile = rc.load.path]
  /\ UNCHANGED <<mergeVars, ld, ssr, sx, nsa>>

\* lines 228-239: the mode, the filter on apply, the sort on enforce
RcSortPlugins ==
  /\ rc.pc = "plugins"
  /\ LET Applies(p) == AppliesTo(p, rc.command)
         raw == SelectSeq(flat(OrElse(Get(rc.config, <<"plugins">>), Arr(<<>>)).l), Applies)
         sorted == sortUserPlugins(Arr(raw))
     IN rc' = [rc EXCEPT !.pc = "configHooks",
                         !.mode = resolvedMode(rc.config, rc.mode),
                         !.rawUserPlugins = raw,
                         !.sorted = sorted,
                         !.userPlugins = sorted[1] \o sorted[2] \o sorted[3],
                         !.configAfterLoad = rc.config,
                         !.idx = 1]
  /\ UNCHANGED <<mergeVars, ld, ssr, sx, nsa>>

\* a variant that filters and sorts the plugins of the accumulator again
hookedPlugins_resorted(state) ==
  LET Applies(p) == AppliesTo(p, state.command)
      raw == SelectSeq(flat(OrElse(Get(state.config, <<"plugins">>), Arr(<<>>)).l), Applies)
      sorted == sortUserPlugins(Arr(raw))
  IN sorted[1] \o sorted[2] \o sorted[3]
\* lines 240 and 374: both rounds of hooks go over the const userPlugins
hookedPlugins(state) == state.userPlugins

\* lines 240-247: one iteration of userPlugins.forEach over the config hooks;
\* the hook returns or throws
RcConfigHook ==
  /\ rc.pc = "configHooks"
  /\ rc.idx <= Len(hookedPlugins(rc))
  /\ LET p == hookedPlugins(rc)[rc.idx] IN
     IF ~Truthy(Get(p, <<"config">>))
       THEN rc' = [rc EXCEPT !.idx = rc.idx + 1]
       ELSE \E threw \in BOOLEAN :
         IF threw
           THEN rc' = hookThrew(rc, Throw(<<"config">> \o Get(p, <<"name">>).s),
                                Append(rc.calls,
                                  Call("config", p, rc.config, rc.configEnv, Undef, TRUE)))
           ELSE LET res == ConfigHookResult(p)
                    m == foldHookResult(rc.config, res)
                    log == Append(rc.calls,
                             Call("config", p, rc.config, rc.configEnv, res, FALSE))
                IN IF IsThrow(m)
                     THEN rc' = [rc EXCEPT !.pc = "failed", !.error = m, !.calls = log]
                     ELSE rc' = [rc EXCEPT
                            !.config = m,
                            !.configIsInline = rc.configIsInline /\ ~Truthy(res),
                            !.calls = log,
                            !.idx = rc.idx + 1]
  /\ UNCHANGED <<mergeVars, ld, ssr, sx, nsa>>

\* the alias injected ahead of the user's: /^\/@vite\// to the client directory
ClientAlias ==
  AliasPair(RegExp(<<"^", "/", "@", "v", "i", "t", "e", "/">>), Fn(<<"CLIENT_DIR">>))

\* lines 337-364: the resolved config literal
ResolvedLiteral(config, v) ==
  LET fields == Obj(<<
        Prop(<<"configFile">>, IF Truthy(v.configFile) THEN v.configFile ELSE Undef),
        Prop(<<"inlineConfig">>, Ref(<<"inlineConfig">>)),
        Prop(<<"root">>, v.root),
        Prop(<<"base">>, Str(v.base)),
        Prop(<<"resolve">>, v.resolveOptions),
        Prop(<<"publicDir">>, OrElse(Get(config, <<"publicDir">>), Str(<<"public">>))),
        Prop(<<"command">>, v.command),
        Prop(<<"mode">>, v.mode),
        Prop(<<"isProduction">>, Bool(v.isProduction)),
        Prop(<<"optimizeCacheDir">>, Undef),
        Prop(<<"plugins">>, Arr(v.userPlugins)),
        Prop(<<"server">>, OrElse(Get(config, <<"server">>), Obj(<<>>))),
        Prop(<<"build">>, v.build),
        Prop(<<"env">>,
             spread(v.userEnv, Obj(<<Prop(<<"BASE_URL">>, Str(v.base)),
                                     Prop(<<"MODE">>, v.mode),
                                     Prop(<<"DEV">>, Bool(~v.isProduction)),
                                     Prop(<<"PROD">>, Bool(v.isProduction))>>))),
        Prop(<<"assetsInclude">>, Fn(<<"assetsInclude">>)),
        Prop(<<"logger">>, Ref(<<"logger">>)),
        Prop(<<"createResolver">>, Fn(<<"createResolver">>))>>)
  IN spread(config, fields)

\* lines 249-371: the root, the alias, the env, the base, the build options,
\* the resolved config and its plugins
RcResolve ==
  /\ rc.pc = "configHooks"
  /\ rc.idx > Len(hookedPlugins(rc))
  /\ LET config == rc.config
         resolvedRoot == OrElse(Get(config, <<"root">>), Str(<<"cwd">>))
         resolvedAlias ==
           mergeAlias(Arr(<<ClientAlias>>),
                      OrElse(OrElse(Get(Get(config, <<"resolve">>), <<"alias">>),
                                    Get(config, <<"alias">>)),
                             Arr(<<>>)))
         resolveOptions ==
           Set(spread(Obj(<<Prop(<<"dedupe">>, Get(config, <<"dedupe">>))>>),
                      Get(config, <<"resolve">>)),
               <<"alias">>, resolvedAlias)
         userEnv == loadEnv(rc.mode)
         isProduction == rc.mode = Production
         base == resolveBaseUrl(Get(config, <<"base">>), rc.command = Str(<<"build">>))
         build == resolveBuildOptions(Get(config, <<"build">>))
         literal ==
           ResolvedLiteral(config,
             [configFile |-> rc.configFile, root |-> resolvedRoot, base |-> base,
              resolveOptions |-> resolveOptions, command |-> rc.command,
              mode |-> rc.mode, isProduction |-> isProduction,
              userPlugins |-> rc.userPlugins, build |-> build, userEnv |-> userEnv])
     IN IF IsThrow(resolvedAlias) THEN RcFail(resolvedAlias)
        ELSE IF IsThrow(userEnv) THEN RcFail(userEnv)
        ELSE rc' = [rc EXCEPT
               !.pc = "notify",
               !.idx = 1,
               !.nodeEnv = IF isProduction THEN Production ELSE rc.nodeEnv,
               !.resolved = Set(literal, <<"plugins">>,
                                resolvePlugins(rc.sorted[1], rc.sorted[2], rc.sorted[3]))]
  /\ UNCHANGED <<mergeVars, ld, ssr, sx, nsa>>

\* lines 374-378: one iteration of userPlugins.forEach over the configResolved
\* hooks; the hook returns or throws
RcConfigResolvedHook ==
  /\ rc.pc = "notify"
  /\ rc.idx <= Len(hookedPlugins(rc))
  /\ LET p == hookedPlugins(rc)[rc.idx]
         first == IF rc.atFirstNotify = Undef
                    THEN Obj(<<Prop(<<"resolved">>, rc.resolved), Prop(<<"config">>, rc.config)>>)
                    ELSE rc.atFirstNotify
     IN
     IF ~Truthy(Get(p, <<"configResolved">>))
       THEN rc' = [rc EXCEPT !.idx = rc.idx + 1]
       ELSE \E threw \in BOOLEAN :
         LET log == Append(rc.calls,
                      Call("configResolved", p, Ref(<<"resolved">>), Undef, Undef, threw))
         IN IF threw
              THEN rc' = [hookThrew(rc, Throw(<<"configResolved">> \o Get(p, <<"name">>).s), log)
                            EXCEPT !.atFirstNotify = first]
              ELSE rc' = [rc EXCEPT
                     !.calls = log, !.atFirstNotify = first, !.idx = rc.idx + 1]
  /\ UNCHANGED <<mergeVars, ld, ssr, sx, nsa>>

\* lines 380-451: the deprecated build.base copied onto config, the accessors
\* for build.base, alias and dedupe, and the return
RcFinish ==
  /\ rc.pc = "notify"
  /\ rc.idx > Len(hookedPlugins(rc))
  /\ LET buildBase == Get(Get(rc.config, <<"build">>), <<"base">>)
         config == IF Truthy(buildBase) THEN Set(rc.config, <<"base">>, buildBase) ELSE rc.config
         build == Set(Get(rc.resolved, <<"build">>), <<"base">>, Accessor(<<"resolved.base">>))
         resolved ==
           Set(Set(Set(rc.resolved, <<"build">>, build),
                   <<"alias">>, Accessor(<<"resolved.resolve.alias">>)),
               <<"dedupe">>, Accessor(<<"resolved.resolve.dedupe">>))
     IN rc' = [rc EXCEPT
          !.pc = "returned",
          !.config = config,
          !.inlineConfig = IF rc.configIsInline THEN config ELSE rc.inlineConfig,
          !.resolved = resolved]
  /\ UNCHANGED <<mergeVars, ld, ssr, sx, nsa>>

RcNext ==
  \/ RcLoadConfig
  \/ RcSortPlugins
  \/ RcConfigHook
  \/ RcResolve
  \/ RcConfigResolvedHook
  \/ RcFinish

----------------------------------------------------------------------------
\* The runs of resolveConfig that are checked.

Serve == Str(<<"serve">>)
Build == Str(<<"build">>)
PluginNames == <<"A", "B", "C", "D", "E", "F", "G", "H">>
Enforces == {"normal", "pre", "post"}

\* a plugin: its name, its enforce tag, and one of four shapes:
\*   full    config hook returning a partial config, configResolved hook
\*   silent  config hook returning nothing, no configResolved hook
\*   build   apply: 'build', both hooks
\*   serve   apply: 'serve', configResolved hook only
Plugin(name, enforce, shape) ==
  Obj(<<Prop(<<"name">>, Str(<<name>>))>>
      \o (IF enforce = "normal" THEN <<>> ELSE <<Prop(<<"enforce">>, Str(<<enforce>>))>>)
      \o (IF shape \in {"build", "serve"} THEN <<Prop(<<"apply">>, Str(<<shape>>))>> ELSE <<>>)
      \o (IF shape \in {"full", "build"} THEN <<Prop(<<"config">>, Fn(<<"partial">>))>>
          ELSE IF shape = "silent" THEN <<Prop(<<"config">>, Fn(<<"nothing">>))>>
          ELSE <<>>)
      \o (IF shape # "silent" THEN <<Prop(<<"configResolved">>, Fn(<<"notify">>))>> ELSE <<>>))

NoLoad == [kind |-> "null", config |-> Undef, path |-> Undef]
FailedLoad == [kind |-> "throw", config |-> Undef, path |-> Undef]
Loaded(config) == [kind |-> "config", config |-> config, path |-> Str(<<"/vite.config.js">>)]

\* registration lists of every length up to MaxPlugins, every enforce tag
PluginLists(shapes) ==
  UNION {{[i \in 1..n |-> Plugin(PluginNames[i], e[i], sh[i])] :
            e \in [1..n -> Enforces], sh \in [1..n -> shapes]} : n \in 0..MaxPlugins}

\* any order of enforce tags, plugins with and without hooks
RcInitOrders ==
  \E ps \in PluginLists({"full", "silent"}) :
    rc = RcStart(Obj(<<Prop(<<"plugins">>, Arr(ps))>>), Serve, Development, NoLoad)

\* the registration [A(normal), B(pre), C(post), D(pre)] in every shape
ExampleEnforce == <<"normal", "pre", "post", "pre">>
RcInitShapes ==
  \E sh \in [1..4 -> {"full", "silent", "build", "serve"}], command \in {Serve, Build} :
    rc = RcStart(Obj(<<Prop(<<"plugins">>,
                            Arr([i \in 1..4 |->
                                   Plugin(PluginNames[i], ExampleEnforce[i], sh[i])]))>>),
                 command, Development, NoLoad)

\* inline and file configs around a short plugin list
InlineParts ==
  {<<>>,
   <<Prop(<<"mode">>, Production)>>,
   <<Prop(<<"mode">>, Str(<<"local">>))>>,
   <<Prop(<<"build">>, Obj(<<Prop(<<"base">>, Str(<<"/", "x", "/">>))>>))>>,
   <<Prop(<<"configFile">>, False)>>,
   <<Prop(<<"alias">>, Arr(<<AliasPair(Str(Find1), ReplFn)>>))>>}
InlinePlugins ==
  {<<>>,
   <<Prop(<<"plugins">>, Arr(<<Plugin("A", "normal", "silent")>>))>>,
   <<Prop(<<"plugins">>, Arr(<<Arr(<<Plugin("A", "normal", "full"), Plugin("B", "pre", "full")>>),
                           Plugin("C", "pre", "serve")>>))>>}
FileConfigs ==
  {Obj(<<Prop(<<"mode">>, Str(<<"staging">>))>>),
   Obj(<<Prop(<<"plugins">>, Arr(<<Plugin("F", "post", "full")>>)),
         Prop(<<"base">>, Str(<<"x">>))>>)}
RcInitConfigs ==
  \E parts \in InlineParts, plugins \in InlinePlugins,
     load \in {NoLoad, FailedLoad} \cup {Loaded(c) : c \in FileConfigs},
     command \in {Serve, Build}, defaultMode \in {Development, Production} :
    rc = RcStart(Obj(parts \o plugins), command, defaultMode, load)

RcInit ==
  MergeIdle /\ ld = [pc |-> "idle"] /\ ssr = [pc |-> "idle"] /\ sx = [pc |-> "idle"] /\ nsa = [pc |-> "idle"]
    /\ (RcInitOrders \/ RcInitShapes \/ RcInitConfigs)

SpecResolve == RcInit /\ [][RcNext]_vars

----------------------------------------------------------------------------
\* loadConfigFromFile and loadConfigFromBundledFile.
\*
\* A path is a sequence of pieces ending in its extension, so that
\* path.extname and `resolvedPath + '.js'` are computed.  The config file on
\* disk has a content version (raised by an edit) and a kind of export; a
\* module that was evaluated carries the version it was evaluated from.

RootConfig(ext) == <<"root/vite.config", ext>>
ExplicitConfigs == {<<"cwd/my", ".js">>, <<"cwd/my", ".mjs">>, <<"cwd/my", ".ts">>}
NoPath == <<>>
extname(path) == path[Len(path)]
Extensions == {".js", ".mjs", ".ts"}

\* what the config module exports
ExportKinds == {"object", "function", "functionReturningNumber", "number", "undefined"}
NoModule == [kind |-> "none", version |-> 0]
Module(kind, version) == [kind |-> kind, version |-> version]
\* !userConfig
Falsy(m) == m.kind \in {"none", "undefined"}

\* a thrown error and its message, a sequence of pieces of text
Error(message) == [message |-> message]
\* the host's reports of ES module syntax in a file it loads as CommonJS
EsmSyntaxMessages ==
  { <<"Must use import to load ES Module", ": vite.config">>,
    <<"SyntaxError: ", "Cannot use import statement", " outside a module">>,
    <<"Unexpected token", " 'export'">>,
    <<"Unexpected identifier">> }
\* errors raised while the file is evaluated
RuntimeMessages ==
  { <<"Cannot find module", " 'missing'">>,
    <<"Unexpected token", " } in JSON at position 3">>,
    <<"unexpected token">>,
    <<"x is not defined">> }
\* every message passes for ES module syntax
ignored_always(message) == TRUE
\* lines 677-687, ignored.test(e.message): one of the four patterns occurs in
\* the message
ignored(message) ==
  \E i \in 1..Len(message) :
    message[i] \in { "Cannot use import statement", "Must use import to load ES Module",
                     "Unexpected token", "Unexpected identifier" }

\* the loader installed by loadConfigFromBundledFile (lines 776-782)
Substituted(fileName, bundledCode) == [fileName |-> fileName, code |-> bundledCode]

\* the state of the process before the first load
LdStartState(files, pkgModule, exports, configFile) ==
  [pc |-> "idle",
   \* the file system, the clock and the host's loaders and caches
   files |-> files, pkgModule |-> pkgModule, exports |-> exports, version |-> 1,
   now |-> 0,
   requireExtensions |-> [e \in Extensions |-> <<>>],
   requireCache |-> {},
   importCache |-> {},
   \* the calls made so far
   loads |-> 0, stopService |-> 0, errorsLogged |-> 0,
   \* the arguments and locals of the call
   configFile |-> configFile, resolvedPath |-> NoPath, isTS |-> FALSE, isMjs |-> FALSE,
   userConfig |-> NoModule, code |-> 0, artifactWritten |-> FALSE,
   requireError |-> Error(<<>>), fallbacks |-> 0,
   viaBundled |-> FALSE, defaultLoader |-> <<>>,
   result |-> "none", config |-> NoModule, error |-> Error(<<>>)]

\* a variant whose failing exit leaves the service running
LdThrows_serviceLeft(state, e) ==
  [state EXCEPT !.pc = "done", !.result = "threw", !.error = e,
                !.errorsLogged = state.errorsLogged + 1]

\* lines 713-720: the error is logged and thrown again, stopService is awaited
LdThrows(state, e) ==
  [state EXCEPT !.pc = "done", !.result = "threw", !.error = e,
                !.errorsLogged = state.errorsLogged + 1,
                !.stopService = state.stopService + 1]

\* lines 709-712 and 718-720: the config is returned, stopService is awaited
LdReturns(state, config) ==
  [state EXCEPT !.pc = "done", !.result = "config", !.config = config,
                !.stopService = state.stopService + 1]

\* the discovery with the typed config looked for first
discover_tsFirst(files) ==
  IF RootConfig(".ts") \in files THEN RootConfig(".ts")
  ELSE IF RootConfig(".js") \in files THEN RootConfig(".js")
  ELSE IF RootConfig(".mjs") \in files THEN RootConfig(".mjs")
  ELSE NoPath
\* lines 611-632: vite.config.js, then .mjs, then .ts, each looked for only
\* while resolvedPath is unset
discover(files) ==
  IF RootConfig(".js") \in files THEN RootConfig(".js")
  ELSE IF RootConfig(".mjs") \in files THEN RootConfig(".mjs")
  ELSE IF RootConfig(".ts") \in files THEN RootConfig(".ts")
  ELSE NoPath

\* lines 594-639: the package type, the explicit path or the discovery
LdStart ==
  /\ ld.pc \in {"idle", "done"}
  /\ ld.loads < MaxLoads
  /\ LET explicit == ld.configFile # NoPath
         resolvedPath == IF explicit THEN ld.configFile ELSE discover(ld.files)
         isMjs == ld.pkgModule \/ (~explicit /\ resolvedPath = RootConfig(".mjs"))
         isTS == ~explicit /\ resolvedPath = RootConfig(".ts")
         called == [ld EXCEPT !.loads = ld.loads + 1, !.resolvedPath = resolvedPath,
                              !.isTS = isTS, !.isMjs = isMjs,
                              !.userConfig = NoModule, !.code = 0,
                              !.artifactWritten = FALSE,
                              !.requireError = Error(<<>>), !.fallbacks = 0,
                              !.viaBundled = FALSE, !.defaultLoader = <<>>,
                              !.result = "none", !.config = NoModule, !.error = Error(<<>>)]
     IN IF resolvedPath = NoPath
          THEN ld' = [called EXCEPT !.pc = "done", !.result = "null"]
          ELSE ld' = [called EXCEPT !.pc = IF ~isMjs /\ isTS THEN "loaded" ELSE "load"]
  /\ UNCHANGED <<mergeVars, rc, ssr, sx, nsa>>

\* lines 651-652: the config is bundled as ESM and written beside the file
LdBundleForImport ==
  /\ ld.pc = "load" /\ ld.isMjs /\ ld.isTS
  /\ \E bundles \in BOOLEAN :
       IF bundles
         THEN ld' = [ld EXCEPT !.pc = "import", !.code = ld.version,
                               !.files = ld.files \cup {ld.resolvedPath \o <<".js">>},
                               !.artifactWritten = TRUE]
         ELSE ld' = LdThrows(ld, Error(<<"bundleConfigFile failed">>))
  /\ UNCHANGED <<mergeVars, rc, ssr, sx, nsa>>

\* import(url), the url a file and its query ?t=<Date.now()>: a URL imported
\* before gives the module of that import
Imported(state, url, version) ==
  IF \E m \in state.importCache : m.url = url
    THEN (CHOOSE m \in state.importCache : m.url = url).version
    ELSE version

\* lines 653-659: the artifact is imported, then deleted
LdImportArtifact ==
  /\ ld.pc = "import"
  /\ LET url == [file |-> ld.resolvedPath \o <<".js">>, t |-> ld.now] IN
     \E evaluates \in BOOLEAN :
       IF evaluates
         THEN ld' = [ld EXCEPT
                !.pc = "loaded",
                !.userConfig = Module(ld.exports, Imported(ld, url, ld.code)),
                !.importCache = ld.importCache
                                  \cup {[url |-> url, version |-> Imported(ld, url, ld.code)]},
                !.files = ld.files \ {ld.resolvedPath \o <<".js">>}]
         ELSE ld' = LdThrows(ld, Error(<<"import failed">>))
  /\ UNCHANGED <<mergeVars, rc, ssr, sx, nsa>>

\* lines 661-666: the file is imported under a query of the current time
LdImport ==
  /\ ld.pc = "load" /\ ld.isMjs /\ ~ld.isTS
  /\ LET url == [file |-> ld.resolvedPath, t |-> ld.now] IN
     \E evaluates \in BOOLEAN :
       IF evaluates
         THEN ld' = [ld EXCEPT
                !.pc = "loaded",
                !.userConfig = Module(ld.exports, Imported(ld, url, ld.version)),
                !.importCache = ld.importCache
                                  \cup {[url |-> url, version |-> Imported(ld, url, ld.version)]}]
         ELSE ld' = LdThrows(ld, Error(<<"import failed">>))
  /\ UNCHANGED <<mergeVars, rc, ssr, sx, nsa>>

\* the loader require() uses for a path: the one registered for its
\* extension, which is a substituted one while a substitution is in place
LoaderOf(state, path) == state.requireExtensions[extname(path)]
\* the substituted loader compiles its bundled code for its own file only
CompilesBundled(loader, path) == loader # <<>> /\ loader[Len(loader)].fileName = path

\* lines 670-692: the cache entry is deleted and the file is required; an
\* error whose message matches the ignored pattern is dropped, any other is
\* thrown again
LdRequire ==
  /\ ld.pc = "load" /\ ~ld.isMjs /\ ~ld.isTS
  /\ LET loader == LoaderOf(ld, ld.resolvedPath)
         cleared == [ld EXCEPT !.requireCache = ld.requireCache \ {ld.resolvedPath}]
         version == IF CompilesBundled(loader, ld.resolvedPath)
                      THEN loader[Len(loader)].code ELSE ld.version
         compiled == CompilesBundled(loader, ld.resolvedPath)
         asEsm == extname(ld.resolvedPath) = ".mjs" /\ ~compiled
         Caught(e) == [cleared EXCEPT !.requireError = e]
     IN \/ /\ ~asEsm
           /\ ld' = [cleared EXCEPT
                      !.pc = "loaded",
                      !.userConfig = Module(ld.exports, version),
                      !.requireCache = cleared.requireCache \cup {ld.resolvedPath}]
        \/ \E message \in EsmSyntaxMessages \cup RuntimeMessages :
             /\ asEsm => message = <<"Must use import to load ES Module", ": vite.config">>
             /\ compiled => message \in RuntimeMessages
             /\ ld' = IF ignored(message)
                        THEN [Caught(Error(message)) EXCEPT !.pc = "loaded"]
                        ELSE LdThrows(Caught(Error(message)), Error(message))
  /\ UNCHANGED <<mergeVars, rc, ssr, sx, nsa>>

\* line 699: the config is bundled as CommonJS
LdBundle ==
  /\ ld.pc = "loaded" /\ Falsy(ld.userConfig)
  /\ LET called == [ld EXCEPT !.fallbacks = ld.fallbacks + 1] IN
     \E bundles \in BOOLEAN :
       IF bundles
         THEN ld' = [called EXCEPT !.pc = "bundled", !.code = ld.version]
         ELSE ld' = LdThrows(called, Error(<<"bundleConfigFile failed">>))
  /\ UNCHANGED <<mergeVars, rc, ssr, sx, nsa>>

\* loadConfigFromBundledFile (lines 770-789): the loader of the extension is
\* replaced, the file required, the loader put back
loadConfigFromBundledFile(state, fileName, bundledCode, evaluates) ==
  LET extension == extname(fileName)
      defaultLoader == state.requireExtensions[extension]
      substituted ==
        [state EXCEPT
           !.requireExtensions[extension] =
              Append(defaultLoader, Substituted(fileName, bundledCode)),
           !.requireCache = state.requireCache \ {fileName},
           !.viaBundled = TRUE,
           !.defaultLoader = defaultLoader]
  IN IF evaluates
       THEN [substituted EXCEPT
               !.requireCache = substituted.requireCache \cup {fileName},
               !.userConfig = Module(state.exports, bundledCode),
               !.requireExtensions[extension] = defaultLoader]
       ELSE substituted

\* line 700, and the catch and finally when the evaluation throws
LdLoadBundled ==
  /\ ld.pc = "bundled"
  /\ \E evaluates \in BOOLEAN :
       LET after == loadConfigFromBundledFile(ld, ld.resolvedPath, ld.code, evaluates)
       IN IF evaluates
            THEN ld' = [after EXCEPT !.pc = "result"]
            ELSE ld' = LdThrows(after, Error(<<"require of the bundled code failed">>))
  /\ UNCHANGED <<mergeVars, rc, ssr, sx, nsa>>

\* lines 704-712: a function is called with configEnv, the result must be an object
LdResult ==
  /\ \/ ld.pc = "result"
     \/ ld.pc = "loaded" /\ ~Falsy(ld.userConfig)
  /\ LET kind == ld.userConfig.kind
         config == IF kind = "function" THEN Module("object", ld.userConfig.version)
                   ELSE IF kind = "functionReturningNumber"
                     THEN Module("number", ld.userConfig.version)
                   ELSE ld.userConfig
     IN IF config.kind = "object"
          THEN ld' = LdReturns(ld, config)
          ELSE ld' = LdThrows(ld, Error(<<"config must export or return an object.">>))
  /\ UNCHANGED <<mergeVars, rc, ssr, sx, nsa>>

\* between two loads the config file is edited on disk
LdEdit ==
  /\ ld.pc = "done"
  /\ ld.loads < MaxLoads
  /\ ld.version <= MaxEdits
  /\ ld' = [ld EXCEPT !.version = ld.version + 1]
  /\ UNCHANGED <<mergeVars, rc, ssr, sx, nsa>>

\* between two loads the clock of Date.now() advances
LdTick ==
  /\ ld.pc = "done"
  /\ ld.loads < MaxLoads
  /\ ld.now < MaxClock
  /\ ld' = [ld EXCEPT !.now = ld.now + 1]
  /\ UNCHANGED <<mergeVars, rc, ssr, sx, nsa>>

LdNext ==
  \/ LdStart
  \/ LdBundleForImport
  \/ LdImportArtifact
  \/ LdImport
  \/ LdRequire
  \/ LdBundle
  \/ LdLoadBundled
  \/ LdResult
  \/ LdEdit
  \/ LdTick

LdInit ==
  /\ MergeIdle
  /\ rc = [pc |-> "idle"]
  /\ ssr = [pc |-> "idle"]
  /\ sx = [pc |-> "idle"] /\ nsa = [pc |-> "idle"]
  /\ \E pkgModule \in BOOLEAN, exports \in ExportKinds :
       \/ \E files \in SUBSET {RootConfig(e) : e \in Extensions} :
            ld = LdStartState(files, pkgModule, exports, NoPath)
       \/ \E configFile \in ExplicitConfigs :
            ld = LdStartState({configFile}, pkgModule, exports, configFile)

SpecLoad == LdInit /\ [][LdNext]_vars

----------------------------------------------------------------------------
\* resolveSSRExternal.
\*
\* The installed packages are an input: each id resolves in one of the ways
\* of PackageKinds, and a linked package has a directory with a manifest of
\* its own.  A file path is a sequence of segments ending in the extension.

PackageKinds ==
  {"unresolvable",    \* tryNodeResolve or require.resolve throws
   "requireOnly",     \* no ESM entry, a require entry
   "linked",          \* the entry is outside node_modules
   "unlocatable",     \* linked, and <id>/package.json does not resolve
   "dual",            \* the ESM entry and the require entry differ
   "cjs",             \* one entry, a script with CommonJS markers
   "esm",             \* one entry, a script without them
   "nonjs"}           \* one entry that is not a script

NoEntry == <<>>
esmEntry(id, kind) ==
  CASE kind = "requireOnly" -> NoEntry
    [] kind \in {"linked", "unlocatable"} -> <<"packages", id, "index", ".js">>
    [] kind = "dual" -> <<"node_modules", id, "index", ".mjs">>
    [] kind = "nonjs" -> <<"node_modules", id, "index", ".json">>
    [] OTHER -> <<"node_modules", id, "index", ".js">>
requireEntryOf(id, kind) ==
  CASE kind \in {"linked", "unlocatable"} -> <<"packages", id, "index", ".js">>
    [] kind = "nonjs" -> <<"node_modules", id, "index", ".json">>
    [] OTHER -> <<"node_modules", id, "index", ".js">>
\* fs.readFileSync(entry): the tokens of the entry file
contentOf(kind) ==
  IF kind = "cjs" THEN <<"module.exports", "=", "x">> ELSE <<"export", "default", "x">>

\* a variant that takes every entry for an installed one
includesNodeModules_always(path) == TRUE

\* entry.includes('node_modules')
includesNodeModules(path) == \E i \in 1..Len(path) : path[i] = "node_modules"
\* /\.m?js$/.test(entry)
isScript(path) == path[Len(path)] \in {".js", ".mjs"}
\* /\bmodule\.exports\b|\bexports[.\[]|\brequire\s*\(/.test(content)
hasCommonJsMarker(content) ==
  \E i \in 1..Len(content) : content[i] \in {"module.exports", "exports.", "exports[", "require("}

\* ssrExternals.add(id), the Set kept in insertion order
setAdd(set, id) == IF \E i \in 1..Len(set) : set[i] = id THEN set ELSE Append(set, id)
RECURSIVE setAddAll(_, _)
setAddAll(set, ids) ==
  IF ids = <<>> THEN set ELSE setAddAll(setAdd(set, Head(ids)), Tail(ids))
Contains(seq, x) == \E i \in 1..Len(seq) : seq[i] = x

NoManifest == [present |-> FALSE, devDependencies |-> <<>>, dependencies |-> <<>>]
Manifest(devDeps, deps) == [present |-> TRUE, devDependencies |-> devDeps, dependencies |-> deps]
RootDir == "root"

\* a call of resolveSSRExternal in progress: its root and its loop over deps
Frame(root, deps) == [root |-> root, deps |-> deps, i |-> 1]

\* a variant that does not add the devDependencies
ssrEnter_devDepsSkipped(state, root) ==
  LET pkg == state.manifests[root] IN
  IF ~pkg.present
    THEN state
    ELSE [state EXCEPT
            !.stack = Append(state.stack,
                             Frame(root, state.knownImports \o pkg.dependencies)),
            !.walks[root] = state.walks[root] + 1]

\* lines 128-139 of a call on `root`: no manifest, no walk; else the
\* devDependencies are added and the walk starts
ssrEnter(state, root) ==
  LET pkg == state.manifests[root] IN
  IF ~pkg.present
    THEN state
    ELSE [state EXCEPT
            !.ssrExternals = setAddAll(state.ssrExternals, pkg.devDependencies),
            !.stack = Append(state.stack,
                             Frame(root, state.knownImports \o pkg.dependencies)),
            !.walks[root] = state.walks[root] + 1]

\* a variant that leaves the user's external ids out
ssrExternalsOf_heuristicOnly(state) == state.ssrExternals
\* lines 193-200 of a call: the user's external ids are added to the Set,
\* the Set is listed, the noExternal ids and 'vite' are filtered out
ssrExternalsOf(state) ==
  IF state.external.given
    THEN setAddAll(state.ssrExternals, state.external.ids) ELSE state.ssrExternals

\* a variant that keeps the noExternal ids
ssrFiltered_noExternalKept(state, externals) ==
  LET NotVite(id) == id # "vite"
  IN SelectSeq(externals, NotVite)

\* a variant that keeps 'vite'
ssrFiltered_viteKept(state, externals) ==
  LET Kept(id) == ~(state.noExternal.given /\ Contains(state.noExternal.ids, id))
  IN SelectSeq(externals, Kept)

ssrFiltered(state, externals) ==
  LET Kept(id) == ~(state.noExternal.given /\ Contains(state.noExternal.ids, id))
      NotVite(id) == id # "vite"
  IN SelectSeq(SelectSeq(externals, Kept), NotVite)

\* the call of resolveSSRExternal by the caller
SsrCall ==
  /\ ssr.pc = "idle"
  /\ LET entered == ssrEnter(ssr, RootDir) IN
     IF entered.stack = <<>>
       THEN ssr' = [ssr EXCEPT !.pc = "done", !.result = <<>>]
       ELSE ssr' = [entered EXCEPT !.pc = "walk"]
  /\ UNCHANGED <<mergeVars, rc, ld, sx, nsa>>

\* lines 147-191: one iteration of the loop over deps in the innermost call
SsrStep ==
  /\ ssr.pc = "walk"
  /\ LET top == ssr.stack[Len(ssr.stack)] IN
     /\ top.i <= Len(top.deps)
     /\ LET id == top.deps[top.i]
            kind == ssr.kinds[id]
            entry == esmEntry(id, kind)
            requireEntry == requireEntryOf(id, kind)
            next == [ssr EXCEPT !.stack[Len(ssr.stack)].i = top.i + 1]
            added == [next EXCEPT !.ssrExternals = setAdd(ssr.ssrExternals, id)]
        IN IF kind = "unresolvable" THEN ssr' = next
           ELSE IF entry = NoEntry THEN ssr' = added
           ELSE IF ~includesNodeModules(entry)
             THEN IF kind = "unlocatable"
                    THEN ssr' = [ssr EXCEPT !.pc = "failed",
                                            !.error = "Cannot find module"]
                  ELSE IF Len(ssr.stack) >= MaxStack
                    THEN ssr' = [ssr EXCEPT !.pc = "failed",
                                            !.error = "Maximum call stack size exceeded"]
                  ELSE ssr' = ssrEnter(next, id)
           ELSE IF entry # requireEntry THEN ssr' = added
           ELSE IF ~isScript(entry) THEN ssr' = next
           ELSE IF hasCommonJsMarker(contentOf(kind)) THEN ssr' = added
           ELSE ssr' = next
  /\ UNCHANGED <<mergeVars, rc, ld, sx, nsa>>

\* lines 193-200: the loop of the innermost call is over and the call returns
SsrReturn ==
  /\ ssr.pc = "walk"
  /\ LET top == ssr.stack[Len(ssr.stack)]
         externals == ssrExternalsOf(ssr)
         popped == [ssr EXCEPT !.ssrExternals = externals,
                               !.stack = SubSeq(ssr.stack, 1, Len(ssr.stack) - 1)]
     IN /\ top.i > Len(top.deps)
        /\ IF Len(ssr.stack) = 1
             THEN ssr' = [popped EXCEPT !.pc = "done",
                                        !.result = ssrFiltered(ssr, externals)]
             ELSE ssr' = popped
  /\ UNCHANGED <<mergeVars, rc, ld, sx, nsa>>

SsrNext == SsrCall \/ SsrStep \/ SsrReturn

\* The package graphs that are checked: the root lists p and q, which may be
\* linked packages listing each other or themselves.
SsrIds == {"p", "q", "mocha", "vite"}
SsrDirs == {RootDir, "p", "q"}
NotGiven == [given |-> FALSE, ids |-> <<>>]
Given(ids) == [given |-> TRUE, ids |-> ids]

SsrStart(kinds, manifests, knownImports, external, noExternal) ==
  [pc |-> "idle", kinds |-> kinds, manifests |-> manifests,
   knownImports |-> knownImports, external |-> external, noExternal |-> noExternal,
   stack |-> <<>>, ssrExternals |-> <<>>, walks |-> [d \in SsrDirs |-> 0],
   result |-> <<>>, error |-> "none"]

SsrInit ==
  /\ MergeIdle
  /\ rc = [pc |-> "idle"]
  /\ ld = [pc |-> "idle"]
  /\ sx = [pc |-> "idle"] /\ nsa = [pc |-> "idle"]
  /\ \E kp \in PackageKinds, kq \in PackageKinds \ {"unlocatable", "requireOnly"},
        rootManifest \in {NoManifest,
                          Manifest(<<"mocha">>, <<"p">>),
                          Manifest(<<"vite", "q">>, <<"p", "q">>)},
        pDeps \in {<<>>, <<"q">>, <<"p">>},
        qDeps \in {<<>>, <<"p">>},
        knownImports \in {<<>>, <<"q">>, <<"vite">>},
        external \in {NotGiven, Given(<<"vite", "p">>), Given(<<"q">>)},
        noExternal \in {NotGiven, Given(<<"q", "mocha">>)} :
       /\ kp \notin {"linked"} => pDeps = <<>>
       /\ kq \notin {"linked"} => qDeps = <<>>
       /\ ssr = SsrStart([id \in SsrIds |->
                            IF id = "p" THEN kp ELSE IF id = "q" THEN kq ELSE "cjs"],
                         [d \in SsrDirs |->
                            IF d = RootDir THEN rootManifest
                            ELSE IF d = "p" THEN Manifest(<<"ptool">>, pDeps)
                            ELSE Manifest(<<>>, qDeps)],
                         knownImports, external, noExternal)

SpecSSR == SsrInit /\ [][SsrNext]_vars

----------------------------------------------------------------------------
\* shouldExternalizeForSSR (ssrExternal.ts).  An import id is a sequence of
\* pieces; "/" and "." are the separators the code looks at, every other piece
\* is a run of ordinary characters.

\* id.endsWith(suffix)
endsWithAll(cs, suffix) ==
  Len(cs) >= Len(suffix)
    /\ SubSeq(cs, Len(cs) - Len(suffix) + 1, Len(cs)) = suffix
\* the last position of c in cs, 0 when there is none
lastIndexOf(cs, c) ==
  IF \E i \in 1..Len(cs) : cs[i] = c
    THEN CHOOSE i \in 1..Len(cs) :
           cs[i] = c /\ \A j \in (i + 1)..Len(cs) : cs[j] # c
    ELSE 0
\* path.extname skips the slashes a path ends with
RECURSIVE stripSlashes(_)
stripSlashes(cs) ==
  IF endsWith(cs, "/") THEN stripSlashes(dropLast(cs)) ELSE cs
\* the last segment of a path, which is where path.extname looks
lastSegment(cs) ==
  LET t == stripSlashes(cs)
  IN  SubSeq(t, lastIndexOf(t, "/") + 1, Len(t))
\* path.extname(id): from the last "." of the last segment to its end; empty
\* when the segment has no ".", when its only "." is its first character, and
\* for the segment ".."
pathExtname(cs) ==
  LET b == lastSegment(cs)
      d == lastIndexOf(b, ".")
  IN  IF d <= 1 \/ b = <<".", ".">> THEN <<>> ELSE SubSeq(b, d, Len(b))

\* the prefix test without the "/" that makes the import a deep one
shouldExternalizeForSSR_anyPrefix(id, externals) ==
  \E k \in 1..Len(externals) :
    LET e == externals[k]
    IN  \/ id = e
        \/ /\ startsWith(id, e)
           /\ (pathExtname(id) = <<>> \/ endsWithAll(id, <<".", "js">>))
\* externals.some(...): the callback answers true or nothing at all, and some
\* turns that into a boolean
shouldExternalizeForSSR(id, externals) ==
  \E k \in 1..Len(externals) :
    LET e == externals[k]
    IN  \/ id = e
        \/ /\ startsWith(id, e \o <<"/">>)
           /\ (pathExtname(id) = <<>> \/ endsWithAll(id, <<".", "js">>))

SxCall ==
  /\ sx.pc = "call"
  /\ sx' = [sx EXCEPT !.pc = "done",
                      !.should = shouldExternalizeForSSR(sx.id, sx.externals)]
  /\ UNCHANGED <<mergeVars, rc, ld, ssr, nsa>>

\* the pieces import ids are made of
IdPieces == {"lodash", "-es", "/", ".", "js", "css"}
ExternalLists == {<<>>, <<<<"lodash">>>>, <<<<"lodash", "-es">>, <<"lodash">>>>}

SxInit ==
  /\ MergeIdle
  /\ rc = [pc |-> "idle"]
  /\ ld = [pc |-> "idle"]
  /\ ssr = [pc |-> "idle"]
  /\ nsa = [pc |-> "idle"]
  /\ \E id \in SeqsUpTo(IdPieces, MaxIdLen), externals \in ExternalLists :
       sx = [pc |-> "call", id |-> id, externals |-> externals, should |-> FALSE]

SpecMatch == SxInit /\ [][SxCall]_vars

----------------------------------------------------------------------------
\* Properties of shouldExternalizeForSSR.

SxReturned == sx.pc = "done"
\* id is a deep import of e: e, a "/", and possibly more
DeepImportOf(id, e) ==
  Len(id) > Len(e) /\ SubSeq(id, 1, Len(e)) = e /\ id[Len(e) + 1] = "/"
\* the file name an id ends with: what follows its last "/", the slashes it
\* ends with aside
FileNameOf(id) ==
  LET ends == {i \in 1..Len(id) : \A j \in i..Len(id) : id[j] = "/"}
      n == IF ends = {} THEN Len(id) ELSE Len(id) - Cardinality(ends)
      slashes == {i \in 1..n : id[i] = "/"}
      from == IF slashes = {} THEN 1
              ELSE 1 + CHOOSE i \in slashes : \A j \in slashes : j <= i
  IN  SubSeq(id, from, n)
\* a file name has an extension when a "." follows its first character,
\* the name ".." excepted
HasFileExtension(id) ==
  LET name == FileNameOf(id)
  IN  name # <<".", ".">> /\ \E i \in 2..Len(name) : name[i] = "."
EndsInScriptExtension(id) ==
  Len(id) >= 2 /\ id[Len(id) - 1] = "." /\ id[Len(id)] = "js"
SxExpected ==
  \E k \in 1..Len(sx.externals) :
    \/ sx.id = sx.externals[k]
    \/ /\ DeepImportOf(sx.id, sx.externals[k])
       /\ (~HasFileExtension(sx.id) \/ EndsInScriptExtension(sx.id))

\* C18: shouldExternalizeForSSR answers true exactly when the import id is a
\* listed id, or is a deep import "<listed id>/..." that has no file extension
\* or ends in ".js"; with only lodash listed it answers true for a deep import
\* without extension, false for lodash/<name>.css and false for lodash-es.
C18_Matcher ==
  SxReturned =>
    /\ sx.should = SxExpected
    /\ sx.externals = <<<<"lodash">>>> =>
         /\ sx.id = <<"lodash", "/", "lodash">> => sx.should
         /\ sx.id = <<"lodash", "/", "lodash", ".", "css">> => ~sx.should
         /\ sx.id = <<"lodash", "-es">> => ~sx.should
C18_Witness ==
  /\ SxReturned
  /\ sx.externals = <<<<"lodash">>>>
  /\ sx.id = <<"lodash", "/", "lodash", ".", "css">>
  /\ ~sx.should

----------------------------------------------------------------------------
\* Properties of resolveSSRExternal.

\* C3: resolveSSRExternal terminates for every finite package graph, cyclic
\* or self-listing linked packages included: the calls in progress never
\* pile up until the host's call stack is exhausted.
C3_Terminates ==
  ssr.error # "Maximum call stack size exceeded"

SsrReturned == ssr.pc = "done"
RootDevDeps == ssr.manifests[RootDir].devDependencies
InNoExternal(id) == ssr.noExternal.given /\ Contains(ssr.noExternal.ids, id)

\* C24: when the root has a package manifest, every id of the user's external
\* list that is not in noExternal and is not 'vite' is in the result,
\* whatever the walk found for it (unresolvable, ESM only, not a script,
\* linked).
C24_ExternalForced ==
  (SsrReturned /\ ssr.manifests[RootDir] # NoManifest /\ ssr.external.given) =>
    \A i \in 1..Len(ssr.external.ids) :
      LET id == ssr.external.ids[i]
      IN (~InNoExternal(id) /\ id # "vite") => Contains(ssr.result, id)
C24_Witness ==
  /\ SsrReturned
  /\ ssr.manifests[RootDir] # NoManifest
  /\ ssr.external.given /\ Contains(ssr.external.ids, "p")
  /\ ssr.kinds["p"] \in {"unresolvable", "esm", "nonjs", "linked"}
  /\ ~Contains(RootDevDeps, "p")
  /\ Contains(ssr.result, "p")

\* C13: no id of the user's noExternal list is in the result, whether it
\* entered the Set as a devDependency, by the walk or from the external list.
C13_NoExternalRemoved ==
  SsrReturned => \A i \in 1..Len(ssr.result) : ~InNoExternal(ssr.result[i])

C13_Witness ==
  /\ SsrReturned
  /\ ssr.walks["p"] > 0
  /\ InNoExternal("q")
  /\ Contains(RootDevDeps, "q")
  /\ ssr.external.given /\ Contains(ssr.external.ids, "q")
  /\ ssr.kinds["q"] = "cjs"
  /\ Contains(ssr.ssrExternals, "q")
  /\ ssr.result # <<>>

\* C14: 'vite' is never in the result, also when it is in the external
\* list, in the devDependencies or dependencies, or in the known imports.
C14_ViteRemoved ==
  SsrReturned => ~Contains(ssr.result, "vite")

C14_Witness ==
  /\ SsrReturned
  /\ ssr.knownImports = <<"vite">>
  /\ Contains(RootDevDeps, "vite")
  /\ ssr.external.given /\ Contains(ssr.external.ids, "vite")
  /\ Contains(ssr.ssrExternals, "vite")
  /\ ssr.result # <<>>

\* C15 as stated: every devDependency of the root manifest is in the result
\* unconditionally.
C15_DevDepsAlways ==
  SsrReturned => \A i \in 1..Len(RootDevDeps) : Contains(ssr.result, RootDevDeps[i])

\* C15, amended: every devDependency of the root manifest that is neither
\* in noExternal nor 'vite' is in the result of a call that returns, whether
\* or not it resolves and whatever its entry holds.
C15_DevDepsExternal ==
  SsrReturned =>
    \A i \in 1..Len(RootDevDeps) :
      (~InNoExternal(RootDevDeps[i]) /\ RootDevDeps[i] # "vite")
        => Contains(ssr.result, RootDevDeps[i])

C15_Witness ==
  /\ SsrReturned
  /\ Contains(RootDevDeps, "q")
  /\ ssr.kinds["q"] = "unresolvable"
  /\ ~ssr.external.given
  /\ Contains(ssr.result, "q")

\* the candidates of the walk of a directory, and the linked packages among
\* the candidates of the directories that were walked
Candidates(dir) == ssr.knownImports \o ssr.manifests[dir].dependencies
LinkedCandidate(id) ==
  /\ ssr.kinds[id] = "linked"
  /\ \E dir \in SsrDirs : ssr.walks[dir] > 0 /\ Contains(Candidates(dir), id)
\* the ids the heuristic takes for CommonJS
ClassifiedCommonJs(id) == ssr.kinds[id] \in {"requireOnly", "dual", "cjs"}
\* the ids that enter the Set outside the walk
AddedOutsideWalk(id) ==
  \/ ssr.external.given /\ Contains(ssr.external.ids, id)
  \/ \E dir \in SsrDirs : ssr.walks[dir] > 0 /\ Contains(ssr.manifests[dir].devDependencies, id)

\* C19 as stated: a linked candidate is not added by the walk, its directory
\* is walked with the same known imports and the same Set, and every
\* dependency of it that the heuristic takes for CommonJS is in the result of
\* the outer call.
C19_LinkedDepsInResult ==
  SsrReturned =>
    \A id \in {"p", "q"} : LinkedCandidate(id) =>
      /\ Contains(ssr.ssrExternals, id) => AddedOutsideWalk(id)
      /\ \A i \in 1..Len(Candidates(id)) :
           ClassifiedCommonJs(Candidates(id)[i]) => Contains(ssr.result, Candidates(id)[i])

\* C19, amended: the same, for the dependencies that the final filter keeps
\* (those neither in noExternal nor 'vite'), when the outer call returns.
C19_LinkedTraced ==
  SsrReturned =>
    \A id \in {"p", "q"} : LinkedCandidate(id) =>
      /\ Contains(ssr.ssrExternals, id) => AddedOutsideWalk(id)
      /\ \A i \in 1..Len(Candidates(id)) :
           LET d == Candidates(id)[i]
           IN (ClassifiedCommonJs(d) /\ ~InNoExternal(d) /\ d # "vite")
                => Contains(ssr.result, d)

C19_Witness ==
  /\ SsrReturned
  /\ ssr.kinds["p"] = "linked" /\ ssr.walks["p"] = 1
  /\ ssr.manifests[RootDir].dependencies = <<"p">>
  /\ ssr.manifests["p"].dependencies = <<"q">>
  /\ ssr.kinds["q"] = "cjs"
  /\ ssr.knownImports = <<>> /\ ~ssr.external.given
  /\ Contains(ssr.result, "q")
  /\ ~Contains(ssr.result, "p")

\* C20: a candidate whose resolution fails (the ESM-aware resolution, the
\* native resolution, or the location of a linked package's directory) is
\* skipped silently: the walk goes on and the call does not throw for it.
C20_SoftSkip ==
  ~(ssr.pc = "failed" /\ ssr.error = "Cannot find module")

----------------------------------------------------------------------------
\* Properties of loadConfigFromFile.

LdArtifact == ld.resolvedPath \o <<".js">>

\* C1: on the ESM + typed path the artifact <configPath>.js is gone whenever
\* loadConfigFromFile has finished, by returning or by throwing.
C1_ArtifactDeleted ==
  (ld.pc = "done" /\ ld.resolvedPath # NoPath /\ ld.isMjs /\ ld.isTS)
    => LdArtifact \notin ld.files

\* C2: whenever loadConfigFromBundledFile has finished, by returning or by
\* throwing, require.extensions[ext] is the loader it was before the call,
\* and no substituted loader is left to handle a later load.
C2_LoaderRestored ==
  (ld.pc \in {"result", "done"} /\ ld.viaBundled)
    => /\ ld.requireExtensions[extname(ld.resolvedPath)] = ld.defaultLoader
       /\ \A e \in Extensions : ld.requireExtensions[e] = <<>>

\* the root configs on disk, and their place in the order of the discovery
RootConfigsOnDisk == {ext \in Extensions : RootConfig(ext) \in ld.files}
DiscoveryRank(ext) == CASE ext = ".js" -> 1 [] ext = ".mjs" -> 2 [] ext = ".ts" -> 3
LdDiscovered == ld.configFile = NoPath /\ ld.loads > 0

\* C22: without an explicit path the config is the first of vite.config.js,
\* vite.config.mjs, vite.config.ts that exists in the root; when none exists
\* the call returns null: nothing is thrown, nothing is loaded and no error
\* is logged.
C22_DiscoveryOrder ==
  LdDiscovered =>
    /\ \A ext \in Extensions :
         ld.resolvedPath = RootConfig(ext)
           <=> /\ ext \in RootConfigsOnDisk
               /\ \A other \in RootConfigsOnDisk : DiscoveryRank(ext) <= DiscoveryRank(other)
    /\ RootConfigsOnDisk = {} =>
         /\ ld.pc = "done" /\ ld.result = "null" /\ ld.error = Error(<<>>)
         /\ ld.errorsLogged = 0
         /\ ld.userConfig = NoModule /\ ld.fallbacks = 0
         /\ ld.requireCache = {} /\ ld.importCache = {}
C22_Witness ==
  /\ LdDiscovered
  /\ RootConfigsOnDisk = {".mjs", ".ts"}
  /\ ld.resolvedPath = RootConfig(".mjs")
  /\ ld.pc = "done" /\ ld.result = "config"

\* C26: every call of loadConfigFromFile that found a config path calls
\* stopService exactly once, on whichever path it leaves (a returned config,
\* a failure of the compilation, of the evaluation or of the object check),
\* and not before it leaves; a call that finds no config file returns without
\* calling stopService.
C26_ServiceStoppedOnce ==
  /\ ld.pc = "idle" => ld.stopService = 0
  /\ ld.pc \notin {"idle", "done"} => ld.stopService = ld.loads - 1
  /\ (ld.pc = "done" /\ ld.resolvedPath # NoPath) => ld.stopService = ld.loads
  /\ (ld.pc = "done" /\ ld.resolvedPath = NoPath)
       => ld.stopService = 0 /\ ld.result = "null"
C26_Witness ==
  /\ ld.pc = "done" /\ ld.loads = 2 /\ ld.stopService = 2
  /\ ld.result = "threw"
  /\ ld.error = Error(<<"config must export or return an object.">>)

\* the direct require of this call failed
DirectLoadFailed == ld.requireError # Error(<<>>)
\* the message names ES module syntax the way the fixed patterns do
LooksLikeEsmSyntax(message) ==
  \E i \in 1..Len(message) :
    \/ message[i] = "Cannot use import statement"
    \/ message[i] = "Must use import to load ES Module"
    \/ message[i] = "Unexpected token"
    \/ message[i] = "Unexpected identifier"
\* the call went on to the compile-then-evaluate fallback, or is about to
FellThrough ==
  \/ ld.pc = "loaded" /\ Falsy(ld.userConfig) /\ ld.result = "none"
  \/ ld.fallbacks = 1

\* C21: when the direct require of a config that is neither typed nor ESM
\* fails, the call goes on to the compile-then-evaluate fallback exactly when
\* the error message matches one of the fixed ES module syntax patterns; with
\* any other message the call fails with that very error and the fallback is
\* not attempted.
C21_OnlyEsmSyntaxFallsThrough ==
  DirectLoadFailed =>
    IF LooksLikeEsmSyntax(ld.requireError.message)
      THEN FellThrough
      ELSE /\ ld.pc = "done" /\ ld.result = "threw"
           /\ ld.error = ld.requireError
           /\ ld.fallbacks = 0 /\ ~ld.viaBundled
C21_Witness ==
  /\ ld.pc = "done" /\ ld.result = "threw"
  /\ ld.requireError = Error(<<"x is not defined">>)
  /\ ld.error = ld.requireError
  /\ ld.fallbacks = 0

\* C16: the strategy follows the extension, for a discovered and for an
\* explicit path alike: only a .js file is handed to require directly (a
\* .mjs file is imported, a .ts file is compiled first), and a .ts file is
\* not imported uncompiled.
C16_StrategyFollowsExtension ==
  ld.pc = "load" =>
    /\ (~ld.isMjs /\ ~ld.isTS) => extname(ld.resolvedPath) = ".js"
    /\ (ld.isMjs /\ ~ld.isTS) => extname(ld.resolvedPath) # ".ts"

\* C17: every load that returns a config returns the one of the file as it
\* is on disk at that load, never a module kept from an earlier load; so two
\* loads of an unchanged file agree and a load after an edit sees the edit.
C17_ReloadFresh ==
  [][(ld.pc # "done" /\ ld'.pc = "done" /\ ld'.result = "config")
       => ld'.config.version = ld'.version]_vars

----------------------------------------------------------------------------
\* Properties of resolveConfig.

NameOf(p) == Get(p, <<"name">>).s[1]
NamesOf(ps) == [i \in 1..Len(ps) |-> NameOf(ps[i])]
Rank(p) ==
  IF Get(p, <<"enforce">>) = Str(<<"pre">>) THEN 0
  ELSE IF Get(p, <<"enforce">>) = Str(<<"post">>) THEN 2 ELSE 1
IndexIn(ps, p) == CHOOSE i \in 1..Len(ps) : ps[i] = p
IsPrefix(x, y) == Len(x) <= Len(y) /\ SubSeq(y, 1, Len(x)) = x
IsConfigCall(c) == c.hook = "config"
IsNotifyCall(c) == c.hook = "configResolved"
ConfigCalls == SelectSeq(rc.calls, IsConfigCall)
NotifyCalls == SelectSeq(rc.calls, IsNotifyCall)
CalledPlugins(calls) == [i \in 1..Len(calls) |-> calls[i].plugin]
HasConfigHook(p) == Truthy(Get(p, <<"config">>))
HasNotifyHook(p) == Truthy(Get(p, <<"configResolved">>))
RcSorted == rc.pc \in {"configHooks", "notify", "returned", "failed"} /\ rc.idx > 0

\* the plugins registered when the plugins are resolved, less those whose
\* apply names the other command, in registration order
RegisteredPlugins ==
  LET Applies(p) == AppliesTo(p, rc.command)
  IN SelectSeq(flat(OrElse(Get(rc.configAfterLoad, <<"plugins">>), Arr(<<>>)).l), Applies)

\* C4: the user plugins are the registered ones as pre ++ normal ++ post, the
\* registration order kept inside each bucket, and the config hooks and
\* later the configResolved hooks are each invoked in exactly that order.
C4_PluginOrder ==
  RcSorted =>
    LET u == rc.userPlugins
        r == RegisteredPlugins
    IN /\ Len(u) = Len(r)
       /\ \A i \in 1..Len(r) : \E j \in 1..Len(u) : u[j] = r[i]
       /\ \A i, j \in 1..Len(u) :
            i < j => /\ Rank(u[i]) <= Rank(u[j])
                     /\ Rank(u[i]) = Rank(u[j]) => IndexIn(r, u[i]) < IndexIn(r, u[j])
       /\ IsPrefix(CalledPlugins(ConfigCalls), SelectSeq(u, HasConfigHook))
       /\ IsPrefix(CalledPlugins(NotifyCalls), SelectSeq(u, HasNotifyHook))
       /\ rc.pc \in {"notify", "returned"}
            => CalledPlugins(ConfigCalls) = SelectSeq(u, HasConfigHook)
       /\ rc.pc = "returned" => CalledPlugins(NotifyCalls) = SelectSeq(u, HasNotifyHook)
       /\ \A i, j \in 1..Len(rc.calls) :
            (IsNotifyCall(rc.calls[i]) /\ IsConfigCall(rc.calls[j])) => j < i

C4_Witness ==
  /\ rc.pc = "returned"
  /\ NamesOf(RegisteredPlugins) = <<"A", "B", "C", "D">>
  /\ [i \in 1..4 |-> Rank(RegisteredPlugins[i])] = <<1, 0, 2, 0>>
  /\ NamesOf(rc.userPlugins) = <<"B", "D", "A", "C">>
  /\ NamesOf(CalledPlugins(ConfigCalls)) = <<"B", "D", "A", "C">>
  /\ NamesOf(CalledPlugins(NotifyCalls)) = <<"B", "D", "A", "C">>

\* the mode of the inline config as the caller gave it, and of the file config
InlineMode == Get(rc.inlineAtCall, <<"mode">>)
FileMode ==
  IF Get(rc.inlineAtCall, <<"configFile">>) # False /\ rc.load.kind = "config"
    THEN Get(rc.load.config, <<"mode">>) ELSE Undef
ModeBeforeLoad == IF InlineMode # Undef THEN InlineMode ELSE rc.defaultMode
HookedMode == Str(<<"hooked">>)

\* C27: resolved.mode is the inline mode if there is one, else the mode of
\* the loaded file config, else the default mode; a mode returned by a config
\* hook is merged into the accumulator but does not change resolved.mode; and
\* the env given to loadConfigFromFile and to every config hook carries the
\* mode chosen before the load (inline, else default) and the command.
C27_ModePrecedence ==
  LET env == Obj(<<Prop(<<"mode">>, ModeBeforeLoad), Prop(<<"command">>, rc.command)>>)
  IN /\ rc.pc \in {"notify", "returned"} =>
          Get(rc.resolved, <<"mode">>) =
            IF InlineMode # Undef THEN InlineMode
            ELSE IF FileMode # Undef THEN FileMode ELSE rc.defaultMode
     /\ \A i \in 1..Len(ConfigCalls) : ConfigCalls[i].env = env
     /\ (rc.pc # "load" /\ Get(rc.inlineAtCall, <<"configFile">>) # False)
          => rc.loadConfigEnv = env
C27_Witness ==
  /\ rc.pc = "returned"
  /\ InlineMode = Undef /\ FileMode = Str(<<"staging">>) /\ rc.defaultMode = Production
  /\ \E i \in 1..Len(ConfigCalls) : Get(ConfigCalls[i].res, <<"mode">>) = HookedMode
  /\ Get(rc.config, <<"mode">>) = HookedMode
  /\ Get(rc.resolved, <<"mode">>) = Str(<<"staging">>)
  /\ Get(rc.loadConfigEnv, <<"mode">>) = Production

\* the plugins of the accumulator, those contributed by config hooks included
AccumulatedPlugins == OrElse(Get(rc.config, <<"plugins">>), Arr(<<>>)).l
IsElem(ps, p) == \E i \in 1..Len(ps) : ps[i] = p

\* C25: the user plugins that receive hooks are those filtered and sorted
\* before the first config hook ran; a plugin that a config hook contributes
\* in its returned partial config is concatenated to the accumulator's
\* plugins but is not among the user plugins and gets neither a config nor a
\* configResolved hook, and the configResolved round visits the plugins in the
\* order of the config round.
C25_PluginsFixed ==
  RcSorted =>
    /\ Len(rc.userPlugins) = Len(RegisteredPlugins)
    /\ \A i \in 1..Len(rc.userPlugins) : IsElem(RegisteredPlugins, rc.userPlugins[i])
    /\ ~IsElem(rc.userPlugins, ContributedPlugin)
    /\ \A i \in 1..Len(rc.calls) :
         /\ rc.calls[i].plugin # ContributedPlugin
         /\ IsElem(rc.userPlugins, rc.calls[i].plugin)
    /\ (\E i \in 1..Len(ConfigCalls) : Truthy(ConfigCalls[i].res) /\ rc.pc # "failed")
         => AccumulatedPlugins[Len(AccumulatedPlugins)] = ContributedPlugin
    /\ rc.pc = "returned"
         => SelectSeq(CalledPlugins(ConfigCalls), HasNotifyHook)
              = SelectSeq(CalledPlugins(NotifyCalls), HasConfigHook)
C25_Witness ==
  /\ rc.pc = "returned"
  /\ IsElem(AccumulatedPlugins, ContributedPlugin)
  /\ Len(rc.userPlugins) >= 3
  /\ Len(ConfigCalls) >= 2 /\ Len(NotifyCalls) >= 2
  /\ \E i \in 1..Len(rc.userPlugins) : Rank(rc.userPlugins[i]) # 0

\* the accumulator after the first k config hooks that were called
RECURSIVE AccumulatorAfter(_)
AccumulatorAfter(k) ==
  IF k = 0 THEN rc.configAfterLoad
  ELSE IF Truthy(ConfigCalls[k].res)
    THEN mergeConfig(AccumulatorAfter(k - 1), ConfigCalls[k].res, TRUE)
    ELSE AccumulatorAfter(k - 1)
ReturnedValue(c) == Truthy(c.res)
\* the include entries contributed by the hooks called before the k-th
IncludedBefore(k) ==
  LET earlier == SelectSeq(SubSeq(ConfigCalls, 1, k - 1), ReturnedValue)
  IN [i \in 1..Len(earlier) |-> Get(earlier[i].plugin, <<"name">>)]

\* C5: the i-th config hook called receives the loaded config with the
\* non-empty results of the hooks before it merged onto it in order, and a
\* hook that returns nothing leaves the accumulator as it was.
C5_Accumulator ==
  RcSorted =>
    /\ \A i \in 1..Len(ConfigCalls) :
         /\ ConfigCalls[i].arg = AccumulatorAfter(i - 1)
         /\ ConfigCalls[i].env = rc.configEnv
         /\ Get(Get(ConfigCalls[i].arg, <<"optimizeDeps">>), <<"include">>)
              = IF IncludedBefore(i) = <<>> THEN Undef ELSE Arr(IncludedBefore(i))
         /\ (i > 1 /\ ~Truthy(ConfigCalls[i - 1].res) /\ ~ConfigCalls[i - 1].threw)
              => ConfigCalls[i].arg = ConfigCalls[i - 1].arg
    /\ rc.pc = "notify" => rc.config = AccumulatorAfter(Len(ConfigCalls))

C5_Witness ==
  /\ RcSorted
  /\ Len(ConfigCalls) = 4
  /\ ~Truthy(ConfigCalls[3].res) /\ ~ConfigCalls[3].threw
  /\ Get(Get(ConfigCalls[4].arg, <<"optimizeDeps">>), <<"include">>)
       = Arr(<<Str(<<"B">>), Str(<<"D">>)>>)

\* C6: a configResolved hook is invoked only after all config hooks and the
\* construction of the resolved config, and from the first such invocation on
\* neither the resolved config (its build options included) nor the
\* accumulated config is changed.
C6_NoMutationAfterNotify ==
  /\ \A i \in 1..Len(rc.calls) :
       IsNotifyCall(rc.calls[i]) => (rc.resolved # Undef /\ \A j \in 1..Len(rc.calls) :
                                       IsConfigCall(rc.calls[j]) => j < i)
  /\ (rc.pc # "idle" /\ rc.atFirstNotify # Undef)
       => /\ rc.resolved = Get(rc.atFirstNotify, <<"resolved">>)
          /\ rc.config = Get(rc.atFirstNotify, <<"config">>)

\* C7: a hook that throws is the last one invoked, resolveConfig fails with
\* its error and returns no resolved config.
C7_HookFailureAborts ==
  \A i \in 1..Len(rc.calls) :
    rc.calls[i].threw =>
      /\ i = Len(rc.calls)
      /\ rc.pc = "failed"
      /\ rc.error = Throw(<<rc.calls[i].hook>> \o Get(rc.calls[i].plugin, <<"name">>).s)

C7_Witness ==
  /\ rc.pc = "failed"
  /\ Len(rc.calls) > 0
  /\ rc.calls[Len(rc.calls)].threw
  /\ IsNotifyCall(rc.calls[Len(rc.calls)])
  /\ rc.idx < Len(rc.userPlugins)
  /\ \E j \in (rc.idx + 1)..Len(rc.userPlugins) : HasNotifyHook(rc.userPlugins[j])

\* C12: a run of resolveConfig leaves the caller's inline config object as it
\* was at the call, also when no config file is loaded, no hook returns a
\* value and the deprecated build.base is set (mergeConfig itself builds new
\* objects and writes to neither argument).
C12_RawConfigsUnchanged ==
  rc.pc # "idle" => rc.inlineConfig = rc.inlineAtCall

====
